---- MODULE Spec2Model ----
(***************************************************************************)
(* Model of the optimap backend: the mapping job / execution orchestrator  *)
(* (backend/app/service/mapping/job.py and its router) and the input       *)
(* definition version manager (backend/app/service/mapping/blueprint.py).  *)
(*                                                                         *)
(* The record store is modelled as the rows of its tables.  Every service  *)
(* call that runs inside one database transaction is one action.  The      *)
(* background run of a static execution is three transactions (begin,      *)
(* then fail or succeed) and works on the ORM objects its session loaded   *)
(* in the begin transaction: the session is configured with                *)
(* expire_on_commit = False, so the sibling executions a run looks at when *)
(* it aggregates the job status are the rows as they were when the run     *)
(* began, not as they are when it ends.  A flush only writes the columns   *)
(* whose in-session value changed.                                         *)
(*                                                                         *)
(* Timestamps, error messages and file names are abstracted to NULL or a   *)
(* non-NULL token; statuses and counters are kept as they are.             *)
(*                                                                         *)
(* The answer of the jobs router to the request it handled last is kept in *)
(* response, so that the requests a handler refuses are steps of their own *)
(* (they write nothing).  The stream file handlers of the normalizer       *)
(* (backend/app/service/upload/handlers) are modelled by the strings they  *)
(* write to their file and the count they keep.                            *)
(*                                                                         *)
(* Further components, each with a variable and a specification of its     *)
(* own: the mapping applier (backend/app/service/mapping/apply.py), the    *)
(* schema inferencer (backend/app/service/mapping/schema.py), the XML      *)
(* conversion (backend/app/service/upload/handlers/xml.py), the version    *)
(* operations as overlapping database transactions, and the mapping        *)
(* generation loop of the engine (engine/app/service/mapping.py).          *)
(***************************************************************************)
EXTENDS Integers, Sequences, FiniteSets, Bags, TLC

VARIABLES
    job,        \* the mapping_jobs row of the one job modelled, or NoJob
    execs,      \* mapping_job_executions rows of that job; the index is the id
    runs,       \* bag of background tasks: one per accepted file submission
    dyn,        \* the dynamic request being handled (one at a time), or Idle
    inputDefs,  \* input_definitions rows
    nextDefId,  \* next value of the input_definitions id sequence
    response,   \* what the jobs router answered to the request it handled last
    handler,    \* the stream file handler of the upload being converted
    apply,      \* the apply_stream generator being consumed, or NoApply
    builder,    \* the EnhancedSchemaBuilder of a schema extraction, or NoBuilder
    xml,        \* the XML document an XMLStreamFileHandler finalizes, or NoXml
    txns,       \* the open transactions of concurrent version requests
    generation  \* the engine's generate_mapping_from_schemas call, or NoGeneration

vars == <<job, execs, runs, dyn, inputDefs, nextDefId, response, handler, apply, builder, xml, txns, generation>>

-----------------------------------------------------------------------------
(* Bounds of the model *)

MaxDynamic == 2     \* executions created by dynamic requests
MaxRuns == 2        \* background tasks queued or running at the same time
MaxAttempts == 2    \* cap of the attempts counter
MaxDefs == 4        \* input definitions ever created

-----------------------------------------------------------------------------
(* Values *)

NULL == "NULL"
TS == "ts"                  \* a non-NULL datetime.now()
ERR == "err"                \* a non-NULL error message
OUT == "out"                \* a non-NULL output file name
FILE == "file"              \* a non-NULL input file name
URL == "url"                \* a well-formed external_api_endpoint
MALFORMED == "malformed"    \* an endpoint without scheme or host
Unset == "Unset"            \* a field left out of an update request

PENDING == "PENDING"
RUNNING == "RUNNING"
SUCCESS == "SUCCESS"
FAILED == "FAILED"
MappingStatus == {PENDING, RUNNING, SUCCESS, FAILED}

STATIC == "STATIC"
DYNAMIC == "DYNAMIC"
MappingJobType == {STATIC, DYNAMIC}

\* no row in mapping_jobs yet
NoJob == [status |-> "ABSENT", completed_at |-> NULL, type |-> "ABSENT",
          external_api_endpoint |-> NULL]

\* no dynamic request in progress
Idle == [pc |-> "idle", execution_id |-> 0, forward |-> FALSE,
         external_api_endpoint |-> NULL, data_size |-> 0]

\* ids of the source mappings on the job's input definition
JobSourceMappings == {"sm1", "sm2"}

\* a source mapping of another input definition
ForeignSourceMapping == "sm9"

\* the uuid of the job, and one no job has
JobUuid == "uuid1"
UnknownUuid == "uuid0"

\* largest body of a dynamic request, in bytes of its JSON encoding
MaxPayloadBytes == 1048576

ExecIds == DOMAIN execs

\* outcomes of the HEAD request of _validate_endpoint, and "none": not probed
ProbeOutcomes == {"ok", "status", "unreachable"}

-----------------------------------------------------------------------------
(* Responses of the jobs router *)

\* the exceptions the handlers raise
BadRequest == "BadRequest"
HTTPException == "HTTPException"
EntityNotPresent == "EntityNotPresent"
Unauthorized == "Unauthorized"

\* op: the route; identified: AuthUserDep resolved the caller for the request
\* (FALSE on a route that does not declare the dependency); error: the
\* exception raised, NULL when the handler returned; detail: what the handler
\* was given and what it did outside the database
Respond(op, identified, error, detail) ==
    [op |-> op, identified |-> identified, error |-> error, detail |-> detail]

NoResponse == Respond("none", FALSE, NULL, [none |-> TRUE])

\* no StreamFileHandler has been constructed
NoHandler ==
    [kind |-> "none", handle |-> "none", out |-> <<>>, count |-> 0,
     csv_headers |-> NULL, current_data |-> <<>>, input |-> <<>>,
     call |-> "none", raised |-> NULL]

\* no apply_stream generator is running
NoApply ==
    [pc |-> "idle", input_jsons |-> <<>>, source_mappings |-> <<>>,
     bodies |-> {}, results |-> <<>>, cache |-> {}]

\* no EnhancedSchemaBuilder has been constructed
NoBuilder == [pc |-> "none", objects |-> <<>>, examples |-> <<>>, schema |-> <<>>]

\* no XML file is being finalized
NoXml == [pc |-> "none", root |-> [tag |-> "none"], json_result |-> [kind |-> "none"]]

\* the two database transactions of the version manager that may overlap
TxIds == {"t1", "t2"}

\* a transaction that has not begun
NoTx ==
    [pc |-> "idle", op |-> "none", input_def |-> [id |-> 0], targets |-> {},
     locked |-> {}, deselected |-> {}, selected |-> {}, inserted |-> {}]

\* generate_mapping_from_schemas has not been called
NoGeneration ==
    [pc |-> "none", retries |-> 0, retries_total |-> 0, calls |-> 0,
     jsonata_mapping |-> 0, prompt |-> "none", error_message |-> "",
     previous_error |-> "", passed |-> {},
     response |-> [none |-> TRUE]]

-----------------------------------------------------------------------------
(* Rows *)

\* MappingJob row written by create_mapping_job
NewJob(type, endpoint) ==
    [status |-> PENDING, completed_at |-> NULL, type |-> type,
     external_api_endpoint |-> endpoint]

\* MappingJobExecution row inserted by create_mapping_execution: the column
\* defaults (attempts 0, no output file) and the request's values
NewExecution(sm, input_file_name) ==
    [source_mapping_id |-> sm, status |-> PENDING, attempts |-> 0,
     started_at |-> NULL, completed_at |-> NULL, error_message |-> NULL,
     input_file_name |-> input_file_name, output_file_name |-> NULL]

\* the values a static re-submission writes over an existing row: attempts
\* and output_file_name are not among them
ResubmitValues(e, input_file_name) ==
    [e EXCEPT !.status = PENDING, !.completed_at = NULL, !.started_at = NULL,
              !.error_message = NULL, !.input_file_name = input_file_name]

\* what a run's session keeps of job.executions after its begin transaction
Snapshot(rows) ==
    [i \in DOMAIN rows |->
        [status |-> rows[i].status, completed_at |-> rows[i].completed_at]]

\* a background task added by tasks.add_task(svc.execute_mapping_execution, id)
QueuedRun(id) == [execution_id |-> id, pc |-> "queued", snap |-> <<>>]

-----------------------------------------------------------------------------
(* Job CRUD *)

\* a validation that does not look at the answer of the probe
ValidateEndpointUnprobed(endpoint, probe) == endpoint \notin {NULL, MALFORMED}

\* _validate_endpoint: the URL parses and the HEAD probe answers OK
ValidateEndpoint(endpoint, probe) ==
    endpoint \notin {NULL, MALFORMED} /\ probe = "ok"

\* the HEAD request is made for a DYNAMIC job whose endpoint parses
Probed(type, endpoint, probe) ==
    IF type = DYNAMIC /\ endpoint \notin {NULL, MALFORMED} THEN probe ELSE "none"

\* create_mapping_job: the input definition must exist; a DYNAMIC job needs
\* an endpoint that passes the probe; the row starts PENDING
CreateMappingJob(input_definition_id, type, endpoint, probe) ==
    /\ job = NoJob
    /\ \E d \in inputDefs : d.id = input_definition_id
    /\ type = DYNAMIC => ValidateEndpoint(endpoint, probe)
    /\ job' = NewJob(type, endpoint)
    /\ response' = Respond("create_mapping_job", TRUE, NULL,
                           [type |-> type, external_api_endpoint |-> endpoint,
                            probe |-> Probed(type, endpoint, probe)])
    /\ UNCHANGED <<execs, runs, dyn, inputDefs, nextDefId, handler, apply, builder, xml, txns, generation>>

\* update_mapping_job: the type/endpoint check uses the request's value when
\* it is not None and the stored one otherwise; the UPDATE writes every field
\* the request set (exclude_unset), an explicit null endpoint included
UpdateMappingJob(status, completed_at, type, endpoint, probe) ==
    /\ job # NoJob
    /\ LET new_type == IF type # Unset THEN type ELSE job.type
           new_endpoint == IF endpoint \notin {Unset, NULL} THEN endpoint
                           ELSE job.external_api_endpoint
       IN  /\ new_type = DYNAMIC => ValidateEndpoint(new_endpoint, probe)
           /\ response' = Respond("update_mapping_job", TRUE, NULL,
                  [status |-> status, completed_at |-> completed_at,
                   type |-> type, external_api_endpoint |-> endpoint,
                   probe |-> Probed(new_type, new_endpoint, probe)])
    /\ job' = [job EXCEPT
                 !.status = IF status # Unset THEN status ELSE @,
                 !.completed_at = IF completed_at # Unset THEN completed_at ELSE @,
                 !.type = IF type # Unset THEN type ELSE @,
                 !.external_api_endpoint = IF endpoint # Unset THEN endpoint ELSE @]
    /\ UNCHANGED <<execs, runs, dyn, inputDefs, nextDefId, handler, apply, builder, xml, txns, generation>>

-----------------------------------------------------------------------------
(* Static mode: file submission and the background run *)

\* the UPDATE of create_mapping_execution matching no row
ExistingExecutionsNone(sm) == {}

\* rows matched by the UPDATE ... WHERE mapping_job_id = .. AND
\* source_mapping_id = .. of create_mapping_execution
ExistingExecutions(sm) == {i \in ExecIds : execs[i].source_mapping_id = sm}

\* POST /jobs/{job_id}/execute/{source_mapping_id}: the router resets a job
\* that is not RUNNING to PENDING, the service updates the matching rows in
\* place or inserts a row, and a background task is queued for the execution
SubmitFile(sm) ==
    /\ job # NoJob
    /\ BagCardinality(runs) < MaxRuns
    /\ LET routed == IF job.status # RUNNING
                     THEN [job EXCEPT !.status = PENDING] ELSE job
           existing == ExistingExecutions(sm)
       IN  IF existing # {}
           THEN /\ execs' = [i \in ExecIds |->
                               IF i \in existing
                               THEN ResubmitValues(execs[i], FILE) ELSE execs[i]]
                /\ job' = [routed EXCEPT !.status = PENDING]
                /\ \E id \in existing : runs' = runs (+) SetToBag({QueuedRun(id)})
           ELSE /\ execs' = Append(execs, NewExecution(sm, FILE))
                /\ job' = routed
                /\ runs' = runs (+) SetToBag({QueuedRun(Len(execs) + 1)})
    /\ response' = Respond("create_mapping_execution", FALSE, NULL,
                           [source_mapping_id |-> sm])
    /\ UNCHANGED <<dyn, inputDefs, nextDefId, handler, apply, builder, xml, txns, generation>>

\* execute_mapping_execution, first transaction: attempts, started_at and the
\* RUNNING status of the execution and of its job, in one commit; the session
\* keeps the job's executions as loaded here
RunBegin(t) ==
    /\ t.pc = "queued"
    /\ LET id == t.execution_id
       IN  /\ execs[id].attempts < MaxAttempts
           /\ execs' = [execs EXCEPT ![id].attempts = @ + 1,
                                      ![id].started_at = TS,
                                      ![id].status = RUNNING]
           /\ job' = [job EXCEPT !.status = RUNNING]
           /\ runs' = (runs (-) SetToBag({t})) (+)
                      SetToBag({[t EXCEPT !.pc = "running",
                                          !.snap = Snapshot(execs')]})
    /\ UNCHANGED <<dyn, inputDefs, nextDefId, response, handler, apply, builder, xml, txns, generation>>

\* execute_mapping_execution, either except branch: the execution and the
\* job are marked FAILED in one commit
RunFail(t) ==
    /\ t.pc = "running"
    /\ LET id == t.execution_id
       IN  /\ execs' = [execs EXCEPT ![id].status = FAILED,
                                      ![id].error_message = ERR,
                                      ![id].completed_at = TS]
           /\ job' = [job EXCEPT !.status = FAILED, !.completed_at = TS]
           /\ runs' = runs (-) SetToBag({t})
    /\ UNCHANGED <<dyn, inputDefs, nextDefId, response, handler, apply, builder, xml, txns, generation>>

\* job.executions as the run's session sees it in the success transaction:
\* the rows loaded at begin, with the run's own execution as just assigned
SessionExecutions(t) ==
    [t.snap EXCEPT ![t.execution_id] =
        [status |-> SUCCESS, completed_at |-> TS]]

\* all(e.status == SUCCESS for e in job.executions)
AllSuccess(rows) == \A i \in DOMAIN rows : rows[i].status = SUCCESS

\* all(e.completed_at is not None for e in job.executions)
AllCompleted(rows) == \A i \in DOMAIN rows : rows[i].completed_at # NULL

\* execute_mapping_execution, success path: needs an input file; the
\* execution becomes SUCCESS and the job is re-evaluated over job.executions
RunSucceed(t) ==
    /\ t.pc = "running"
    /\ LET id == t.execution_id
           seen == SessionExecutions(t)
       IN  /\ execs[id].input_file_name # NULL
           /\ execs' = [execs EXCEPT ![id].status = SUCCESS,
                                      ![id].output_file_name = OUT,
                                      ![id].completed_at = TS]
           /\ job' = [job EXCEPT
                        !.status = IF AllSuccess(seen) THEN SUCCESS ELSE @,
                        !.completed_at = IF AllCompleted(seen) THEN TS ELSE @]
           /\ runs' = runs (-) SetToBag({t})
    /\ UNCHANGED <<dyn, inputDefs, nextDefId, response, handler, apply, builder, xml, txns, generation>>

-----------------------------------------------------------------------------
(* Dynamic mode: handle_dynamic_mapping, one request at a time *)

\* update_mapping_execution with status SUCCESS and completed_at
DynamicSuccessValues(e) == [e EXCEPT !.status = SUCCESS, !.completed_at = TS]

\* an except branch that re-raises without recording the failure
DynamicFailedValuesUnrecorded(e) == e

\* update_mapping_execution with status FAILED, completed_at and error_message
DynamicFailedValues(e) ==
    [e EXCEPT !.status = FAILED, !.completed_at = TS, !.error_message = ERR]

\* a refusal that does not look at the size of the body
DynamicRefusalAnySize(uuid, sm, data_size) ==
    IF job = NoJob \/ uuid # JobUuid THEN "job"
    ELSE IF sm \notin JobSourceMappings THEN "source_mapping"
    ELSE NULL

\* why a dynamic request is refused before anything is written, or NULL: the
\* router's size check, then the service's lookups of the job by uuid and of
\* the source mapping on the job's input definition
DynamicRefusal(uuid, sm, data_size) ==
    IF data_size > MaxPayloadBytes THEN "payload"
    ELSE IF job = NoJob \/ uuid # JobUuid THEN "job"
    ELSE IF sm \notin JobSourceMappings THEN "source_mapping"
    ELSE NULL

\* the job is found by uuid, the source mapping is on its input definition,
\* and create_mapping_execution(dynamic = True) inserts a row; the handler
\* keeps the job object it loaded
DynamicRequest(uuid, sm, data_size, forward) ==
    /\ dyn = Idle
    /\ DynamicRefusal(uuid, sm, data_size) = NULL
    /\ Len(execs) < MaxDynamic
    /\ execs' = Append(execs, NewExecution(sm, NULL))
    /\ dyn' = [pc |-> "apply", execution_id |-> Len(execs) + 1,
               forward |-> forward,
               external_api_endpoint |-> job.external_api_endpoint,
               data_size |-> data_size]
    /\ UNCHANGED <<job, runs, inputDefs, nextDefId, response, handler, apply, builder, xml, txns, generation>>

\* apply_dynamic_mapping_execution returned: the execution is updated to
\* SUCCESS before the result is forwarded
DynamicApplied ==
    /\ dyn.pc = "apply"
    /\ execs' = [execs EXCEPT ![dyn.execution_id] = DynamicSuccessValues(@)]
    /\ dyn' = [dyn EXCEPT !.pc = "forward"]
    /\ UNCHANGED <<job, runs, inputDefs, nextDefId, response, handler, apply, builder, xml, txns, generation>>

\* apply_dynamic_mapping_execution raised: the except branch marks the
\* execution FAILED and the request fails
DynamicApplyFailed ==
    /\ dyn.pc = "apply"
    /\ execs' = [execs EXCEPT ![dyn.execution_id] = DynamicFailedValues(@)]
    /\ dyn' = Idle
    /\ response' = Respond("handle_dynamic_mapping", TRUE, BadRequest,
                           [forward |-> dyn.forward, post |-> "none"])
    /\ UNCHANGED <<job, runs, inputDefs, nextDefId, handler, apply, builder, xml, txns, generation>>

\* a forward that treats every answer of the callback endpoint as a success
ForwardRaisesNever(endpoint, forward, postOk) == endpoint = NULL

\* the job has no endpoint, or the forward was requested and the POST did
\* not answer OK
ForwardRaises(endpoint, forward, postOk) ==
    endpoint = NULL \/ (forward /\ ~postOk)

\* after the SUCCESS update: a job without endpoint, or a forward whose POST
\* does not answer OK, raises into the except branch; otherwise the result
\* is returned
DynamicForward(postOk) ==
    /\ dyn.pc = "forward"
    /\ LET raised == ForwardRaises(dyn.external_api_endpoint, dyn.forward, postOk)
           post == IF dyn.external_api_endpoint = NULL \/ ~dyn.forward THEN "none"
                   ELSE IF postOk THEN "ok" ELSE "failed"
       IN  /\ IF raised
              THEN execs' = [execs EXCEPT
                               ![dyn.execution_id] = DynamicFailedValues(@)]
              ELSE execs' = execs
           /\ response' = Respond("handle_dynamic_mapping", TRUE,
                                  IF raised THEN BadRequest ELSE NULL,
                                  [forward |-> dyn.forward, post |-> post])
    /\ dyn' = Idle
    /\ UNCHANGED <<job, runs, inputDefs, nextDefId, handler, apply, builder, xml, txns, generation>>

-----------------------------------------------------------------------------------------------------------------------------------------------------
(* Version manager: input definitions of the blueprints *)

Blueprints == {"bp1", "bp2"}

\* create-new-version without its unselect statement
DeselectGroupNone(defs, g) == defs

\* UPDATE input_definitions SET is_selected = false WHERE version_group_id = g
DeselectGroup(defs, g) ==
    {IF d.version_group_id = g THEN [d EXCEPT !.is_selected = FALSE] ELSE d :
        d \in defs}

\* select-version without its deselect statement
DeselectSelectedNone(defs, bp, g) == defs

\* UPDATE ... SET is_selected = false WHERE blueprint_id = bp AND
\* version_group_id = g AND is_selected
DeselectSelected(defs, bp, g) ==
    {IF d.blueprint_id = bp /\ d.version_group_id = g /\ d.is_selected
     THEN [d EXCEPT !.is_selected = FALSE] ELSE d : d \in defs}

\* create_input_definition: a row with the column defaults (a fresh version
\* group, version 1) and is_selected = True
CreateInputDefinition(bp) ==
    /\ nextDefId <= MaxDefs
    /\ inputDefs' = inputDefs \cup
          {[id |-> nextDefId, version_group_id |-> nextDefId, version |-> 1,
            is_selected |-> TRUE, blueprint_id |-> bp]}
    /\ nextDefId' = nextDefId + 1
    /\ UNCHANGED <<job, execs, runs, dyn, response, handler, apply, builder, xml, txns, generation>>

\* create_input_definition_version: the group of the base is deselected and
\* a row with the base's group and blueprint, version base + 1, is inserted
\* selected
CreateInputDefinitionVersion(base) ==
    /\ base \in inputDefs
    /\ nextDefId <= MaxDefs
    /\ inputDefs' = DeselectGroup(inputDefs, base.version_group_id) \cup
          {[id |-> nextDefId, version_group_id |-> base.version_group_id,
            version |-> base.version + 1, is_selected |-> TRUE,
            blueprint_id |-> base.blueprint_id]}
    /\ nextDefId' = nextDefId + 1
    /\ UNCHANGED <<job, execs, runs, dyn, response, handler, apply, builder, xml, txns, generation>>

\* select_input_definition_version: the definition must belong to the
\* blueprint; the selected rows of its group are deselected, then it is
\* selected
SelectInputDefinitionVersion(bp, input_def) ==
    /\ input_def \in inputDefs
    /\ input_def.blueprint_id = bp
    /\ inputDefs' =
          {IF d.id = input_def.id THEN [d EXCEPT !.is_selected = TRUE] ELSE d :
              d \in DeselectSelected(inputDefs, bp, input_def.version_group_id)}
    /\ UNCHANGED <<job, execs, runs, dyn, nextDefId, response, handler, apply, builder, xml, txns, generation>>

\* delete_input_definition
DeleteInputDefinition(input_def) ==
    /\ input_def \in inputDefs
    /\ inputDefs' = inputDefs \ {input_def}
    /\ UNCHANGED <<job, execs, runs, dyn, nextDefId, response, handler, apply, builder, xml, txns, generation>>

VersionInit ==
    /\ job = NoJob
    /\ execs = <<>>
    /\ runs = EmptyBag
    /\ dyn = Idle
    /\ inputDefs = {}
    /\ nextDefId = 1
    /\ response = NoResponse
    /\ handler = NoHandler
    /\ generation = NoGeneration
    /\ txns = [t \in TxIds |-> NoTx]
    /\ xml = NoXml
    /\ builder = NoBuilder
    /\ apply = NoApply

VersionNext ==
    \/ \E bp \in Blueprints : CreateInputDefinition(bp)
    \/ \E base \in inputDefs : CreateInputDefinitionVersion(base)
    \/ \E bp \in Blueprints, d \in inputDefs : SelectInputDefinitionVersion(bp, d)
    \/ \E d \in inputDefs : DeleteInputDefinition(d)

VersionSpec == VersionInit /\ [][VersionNext]_vars

-----------------------------------------------------------------------------
(* The job orchestrator *)

\* an input definition with its source mappings exists; no job yet
Init ==
    /\ job = NoJob
    /\ execs = <<>>
    /\ runs = EmptyBag
    /\ dyn = Idle
    /\ inputDefs = {[id |-> 1, version_group_id |-> 1, version |-> 1,
                     is_selected |-> TRUE, blueprint_id |-> "bp1"]}
    /\ nextDefId = 2
    /\ response = NoResponse
    /\ handler = NoHandler
    /\ generation = NoGeneration
    /\ txns = [t \in TxIds |-> NoTx]
    /\ xml = NoXml
    /\ builder = NoBuilder
    /\ apply = NoApply

\* Files are submitted to STATIC jobs and payloads to DYNAMIC jobs; the job
\* updates enumerated here change the endpoint only.
Next ==
    \/ \E d \in inputDefs, type \in MappingJobType, endpoint \in {NULL, URL},
          probe \in ProbeOutcomes :
          CreateMappingJob(d.id, type, endpoint, probe)
    \/ \E endpoint \in {NULL, URL}, probe \in ProbeOutcomes :
          UpdateMappingJob(Unset, Unset, Unset, endpoint, probe)
    \/ job.type = STATIC /\ \E sm \in JobSourceMappings : SubmitFile(sm)
    \/ \E t \in BagToSet(runs) : RunBegin(t)
    \/ \E t \in BagToSet(runs) : RunFail(t)
    \/ \E t \in BagToSet(runs) : RunSucceed(t)
    \/ job.type = DYNAMIC /\ \E sm \in JobSourceMappings, forward \in BOOLEAN :
          DynamicRequest(JobUuid, sm, MaxPayloadBytes, forward)
    \/ DynamicApplied
    \/ DynamicApplyFailed
    \/ \E postOk \in BOOLEAN : DynamicForward(postOk)

Spec == Init /\ [][Next]_vars

\* a STATIC job has been created; only files are submitted and run
StaticInit ==
    /\ job = NewJob(STATIC, NULL)
    /\ execs = <<>>
    /\ runs = EmptyBag
    /\ dyn = Idle
    /\ inputDefs = {[id |-> 1, version_group_id |-> 1, version |-> 1,
                     is_selected |-> TRUE, blueprint_id |-> "bp1"]}
    /\ nextDefId = 2
    /\ response = NoResponse
    /\ handler = NoHandler
    /\ generation = NoGeneration
    /\ txns = [t \in TxIds |-> NoTx]
    /\ xml = NoXml
    /\ builder = NoBuilder
    /\ apply = NoApply

StaticNext ==
    \/ \E sm \in JobSourceMappings : SubmitFile(sm)
    \/ \E t \in BagToSet(runs) : RunBegin(t)
    \/ \E t \in BagToSet(runs) : RunFail(t)
    \/ \E t \in BagToSet(runs) : RunSucceed(t)

StaticSpec == StaticInit /\ [][StaticNext]_vars

\* the static job when every run succeeds
AllSucceedNext ==
    \/ \E sm \in JobSourceMappings : SubmitFile(sm)
    \/ \E t \in BagToSet(runs) : RunBegin(t)
    \/ \E t \in BagToSet(runs) : RunSucceed(t)

AllSucceedSpec == StaticInit /\ [][AllSucceedNext]_vars

-----------------------------------------------------------------------------
(* Claims *)

Terminal == {SUCCESS, FAILED}

\* execution i is moved to status st by the step
Becomes(i, st) == execs[i].status # st /\ execs'[i].status = st

\* C1: in a static job whose runs all succeed, the job is SUCCESS only while
\* every execution is SUCCESS, and it becomes SUCCESS in the step in which
\* the last execution becomes SUCCESS.
C1_SuccessExactlyWhenAllSucceed ==
    [][/\ job'.status = SUCCESS => AllSuccess(execs')
       /\ (~AllSuccess(execs) /\ AllSuccess(execs')) => job'.status = SUCCESS]_vars

\* C2: a job with at least one execution is SUCCESS if and only if every
\* execution under it is SUCCESS.
C2_SuccessIffAllSuccess ==
    execs # <<>> => (job.status = SUCCESS <=> AllSuccess(execs))

\* C3: the step that marks an execution FAILED records error_message and
\* completed_at on it, sets the job FAILED with completed_at, and leaves
\* every sibling execution as it was.
C3_FailureFailsJobOnly ==
    [][\A i \in DOMAIN execs :
         Becomes(i, FAILED) =>
            /\ execs'[i].error_message # NULL
            /\ execs'[i].completed_at # NULL
            /\ job'.status = FAILED
            /\ job'.completed_at # NULL
            /\ \A j \in DOMAIN execs \ {i} : execs'[j] = execs[j]]_vars

\* C4: an execution's status moves only PENDING -> RUNNING -> SUCCESS or
\* FAILED; it returns to PENDING only in a file submission (the step that
\* queues a background task).
C4_StatusPath ==
    [][\A i \in DOMAIN execs :
         execs'[i].status # execs[i].status =>
            \/ <<execs[i].status, execs'[i].status>> \in
                  {<<PENDING, RUNNING>>, <<RUNNING, SUCCESS>>, <<RUNNING, FAILED>>}
            \/ /\ execs'[i].status = PENDING
               /\ BagCardinality(runs') > BagCardinality(runs)]_vars

\* C5: an execution whose attempt is being processed, or has been, counts
\* that attempt: a dynamic payload under evaluation and every finished
\* execution have attempts >= 1.
C5_AttemptCounted ==
    /\ dyn.pc # "idle" => execs[dyn.execution_id].attempts >= 1
    /\ \A i \in DOMAIN execs :
         execs[i].status \in Terminal => execs[i].attempts >= 1

\* C6: in the state right after the processing of an execution begins
\* (a background run leaves the queue, a dynamic payload is taken up) the
\* execution is RUNNING with started_at set and its job is RUNNING.
C6_BeginIsAtomic ==
    [][\A i \in DOMAIN execs' :
         (\/ i \in DOMAIN execs /\ execs'[i].attempts > execs[i].attempts
          \/ dyn.pc = "idle" /\ dyn'.pc = "apply" /\ dyn'.execution_id = i) =>
            /\ execs'[i].status = RUNNING
            /\ execs'[i].started_at # NULL
            /\ job'.status = RUNNING]_vars

\* C7: when the job is FAILED and an execution that is RUNNING succeeds,
\* the job stays FAILED.
C7_FailedJobStaysFailed ==
    [][(job.status = FAILED /\
        \E i \in DOMAIN execs : execs[i].status = RUNNING /\ Becomes(i, SUCCESS))
       => job'.status = FAILED]_vars

\* the background task queued by the step, if the step is a file submission
Queued(t) == t.pc = "queued" /\ CopiesIn(t, runs') > CopiesIn(t, runs)

\* C8: a static job holds at most one execution per source mapping; a file
\* submission for a mapping that has an execution keeps the row count and
\* resets that row (PENDING, started_at, completed_at and error_message
\* cleared, attempts kept) and leaves the job PENDING; a submission for a new
\* mapping inserts one row.
C8_OneExecutionPerMapping ==
    /\ [](\A i, j \in DOMAIN execs :
            execs[i].source_mapping_id = execs[j].source_mapping_id => i = j)
    /\ [][\A t \in BagToSet(runs') : Queued(t) =>
            IF t.execution_id \in DOMAIN execs
            THEN /\ Len(execs') = Len(execs)
                 /\ execs'[t.execution_id] =
                       [execs[t.execution_id] EXCEPT
                           !.status = PENDING, !.started_at = NULL,
                           !.completed_at = NULL, !.error_message = NULL,
                           !.input_file_name = FILE]
                 /\ job'.status = PENDING
            ELSE /\ Len(execs') = Len(execs) + 1
                 /\ \A i \in DOMAIN execs :
                       execs[i].source_mapping_id #
                          execs'[t.execution_id].source_mapping_id]_vars

\* an execution that ran, was re-submitted and waits again, beside a sibling
C8_Witness ==
    /\ Len(execs) = 2
    /\ job.status = PENDING
    /\ \E i \in DOMAIN execs :
          execs[i].attempts >= 1 /\ execs[i].status = PENDING

C10_AtMostOneSelected ==
    \A d1, d2 \in inputDefs :
        (d1.version_group_id = d2.version_group_id /\ d1.is_selected /\ d2.is_selected)
            => d1 = d2

\* an older definition is the selected one of a group of three
C10_Witness ==
    \E d \in inputDefs :
        /\ d.is_selected
        /\ Cardinality({x \in inputDefs :
              x.version_group_id = d.version_group_id /\ x.id > d.id}) >= 2

\* the input definition inserted by the step, if the step inserts one into
\* the version group of a definition that exists
NewVersion(n) ==
    /\ n \in inputDefs'
    /\ n.id = nextDefId
    /\ nextDefId' = nextDefId + 1
    /\ \E d \in inputDefs : d.version_group_id = n.version_group_id

\* C11: the step that creates a new version inserts a definition of the
\* base's group with version = base.version + 1 and selected, leaves every
\* other definition of the group deselected and every other row as it was, so
\* that the new definition is the only selected one of its group.
C11_NewVersionSelectedAlone ==
    [][\A n \in inputDefs' : NewVersion(n) =>
         /\ \E base \in inputDefs :
               /\ base.version_group_id = n.version_group_id
               /\ base.blueprint_id = n.blueprint_id
               /\ n.version = base.version + 1
         /\ n.is_selected
         /\ inputDefs' \ {n} =
               {IF d.version_group_id = n.version_group_id
                THEN [d EXCEPT !.is_selected = FALSE] ELSE d : d \in inputDefs}
         /\ {d \in inputDefs' :
               d.version_group_id = n.version_group_id /\ d.is_selected} = {n}]_vars

\* a version created from a base: selected, one above a deselected older row
C11_Witness ==
    \E n, b \in inputDefs :
        /\ n.version_group_id = b.version_group_id
        /\ b.id < n.id
        /\ n.version = b.version + 1
        /\ n.is_selected
        /\ ~b.is_selected
        /\ \A d \in inputDefs : d.version_group_id = n.version_group_id => d.id <= n.id

\* C12: no two definitions of one version group carry the same version, and
\* a newly created version is greater than every version already in its
\* group.
C12_VersionsNeverReused ==
    /\ [](\A d1, d2 \in inputDefs :
            (d1.version_group_id = d2.version_group_id /\ d1.version = d2.version)
               => d1 = d2)
    /\ [][\A n \in inputDefs' : NewVersion(n) =>
            \A d \in inputDefs :
               d.version_group_id = n.version_group_id => n.version > d.version]_vars

-----------------------------------------------------------------------------
(* Job CRUD with the requests it refuses *)

\* create_mapping_job raising: the input definition does not exist
\* (EntityNotPresent), or the job is DYNAMIC and its endpoint is missing,
\* malformed, unreachable or answers the probe with a non-OK status
\* (BadRequest); nothing is inserted
CreateMappingJobRejected(input_definition_id, type, endpoint, probe) ==
    /\ job = NoJob
    /\ LET known == \E d \in inputDefs : d.id = input_definition_id
       IN  /\ ~known \/ (type = DYNAMIC /\ ~ValidateEndpoint(endpoint, probe))
           /\ response' = Respond("create_mapping_job", TRUE,
                  IF ~known THEN EntityNotPresent ELSE BadRequest,
                  [type |-> type, external_api_endpoint |-> endpoint,
                   probe |-> IF known THEN Probed(type, endpoint, probe)
                             ELSE "none"])
    /\ UNCHANGED <<job, execs, runs, dyn, inputDefs, nextDefId, handler, apply, builder, xml, txns, generation>>

\* update_mapping_job raising BadRequest: the job would be DYNAMIC and the
\* endpoint the check looks at is missing or fails validation; no UPDATE
UpdateMappingJobRejected(status, completed_at, type, endpoint, probe) ==
    /\ job # NoJob
    /\ LET new_type == IF type # Unset THEN type ELSE job.type
           new_endpoint == IF endpoint \notin {Unset, NULL} THEN endpoint
                           ELSE job.external_api_endpoint
       IN  /\ new_type = DYNAMIC /\ ~ValidateEndpoint(new_endpoint, probe)
           /\ response' = Respond("update_mapping_job", TRUE, BadRequest,
                  [status |-> status, completed_at |-> completed_at,
                   type |-> type, external_api_endpoint |-> endpoint,
                   probe |-> Probed(new_type, new_endpoint, probe)])
    /\ UNCHANGED <<job, execs, runs, dyn, inputDefs, nextDefId, handler, apply, builder, xml, txns, generation>>

\* delete_mapping_job: the row and, by the cascade, its executions; taken
\* here while nothing runs on the job
DeleteMappingJob ==
    /\ job # NoJob
    /\ runs = EmptyBag
    /\ dyn = Idle
    /\ job' = NoJob
    /\ execs' = <<>>
    /\ response' = Respond("delete_mapping_job", TRUE, NULL, [none |-> TRUE])
    /\ UNCHANGED <<runs, dyn, inputDefs, nextDefId, handler, apply, builder, xml, txns, generation>>

\* ids a create request names: the input definitions and one that never existed
RequestedDefIds == {d.id : d \in inputDefs} \cup {nextDefId}

Endpoints == {NULL, MALFORMED, URL}

CrudNext ==
    \/ \E id \in RequestedDefIds, type \in MappingJobType,
          endpoint \in Endpoints, probe \in ProbeOutcomes :
          CreateMappingJob(id, type, endpoint, probe)
    \/ \E id \in RequestedDefIds, type \in MappingJobType,
          endpoint \in Endpoints, probe \in ProbeOutcomes :
          CreateMappingJobRejected(id, type, endpoint, probe)
    \/ \E status \in {Unset, SUCCESS, FAILED}, completed_at \in {Unset, TS},
          type \in {Unset} \cup MappingJobType,
          endpoint \in {Unset} \cup Endpoints, probe \in ProbeOutcomes :
          UpdateMappingJob(status, completed_at, type, endpoint, probe)
    \/ \E status \in {Unset, SUCCESS, FAILED}, completed_at \in {Unset, TS},
          type \in {Unset} \cup MappingJobType,
          endpoint \in {Unset} \cup Endpoints, probe \in ProbeOutcomes :
          UpdateMappingJobRejected(status, completed_at, type, endpoint, probe)
    \/ DeleteMappingJob

CrudSpec == Init /\ [][CrudNext]_vars

\* the step is answered by the route op
Answers(op) == response' # response /\ response'.op = op

\* C13: a create request for a DYNAMIC job whose endpoint is missing,
\* malformed, unreachable or answers the probe with a non-OK status is
\* answered with an error and leaves the table without a job row; a DYNAMIC
\* job row only appears with a well-formed endpoint whose probe answered OK.
C13_DynamicCreateNeedsReachableEndpoint ==
    [][/\ (Answers("create_mapping_job") /\ response'.detail.type = DYNAMIC
             /\ (\/ response'.detail.external_api_endpoint \in {NULL, MALFORMED}
                 \/ response'.detail.probe # "ok"))
          => (response'.error # NULL /\ job = NoJob /\ job' = NoJob)
       /\ (job = NoJob /\ job' # NoJob /\ job'.type = DYNAMIC)
          => (/\ job'.external_api_endpoint = URL
              /\ response'.op = "create_mapping_job"
              /\ response'.detail.probe = "ok")]_vars

\* a create request for a DYNAMIC job whose well-formed endpoint did not
\* answer has been refused and no job exists
C13_Witness ==
    /\ job = NoJob
    /\ response.op = "create_mapping_job"
    /\ response.error = BadRequest
    /\ response.detail.type = DYNAMIC
    /\ response.detail.external_api_endpoint = URL
    /\ response.detail.probe = "unreachable"

\* C14: every DYNAMIC job has an external endpoint.
C14_DynamicJobHasEndpoint ==
    job.type = DYNAMIC => job.external_api_endpoint \notin {NULL, MALFORMED}

-----------------------------------------------------------------------------
(* Dynamic mode with the requests it refuses *)

\* handle_dynamic_mapping raising before create_mapping_execution: the
\* router's HTTPException for a body over the limit, the service's
\* EntityNotPresent for the job or the source mapping
DynamicRequestRejected(uuid, sm, data_size, forward) ==
    /\ dyn = Idle
    /\ LET refused == DynamicRefusal(uuid, sm, data_size)
       IN  /\ refused # NULL
           /\ response' = Respond("handle_dynamic_mapping", TRUE,
                  IF refused = "payload" THEN HTTPException ELSE EntityNotPresent,
                  [forward |-> forward, post |-> "none", refused |-> refused])
    /\ UNCHANGED <<job, execs, runs, dyn, inputDefs, nextDefId, handler, apply, builder, xml, txns, generation>>

\* body sizes at the limit and one byte over it
PayloadSizes == {MaxPayloadBytes, MaxPayloadBytes + 1}

DynamicNext ==
    \/ \E d \in inputDefs, endpoint \in {NULL, URL}, type \in MappingJobType :
          CreateMappingJob(d.id, type, endpoint, "ok")
    \/ \E endpoint \in {NULL, URL} :
          UpdateMappingJob(Unset, Unset, Unset, endpoint, "ok")
    \/ DeleteMappingJob
    \/ \E uuid \in {JobUuid, UnknownUuid},
          sm \in JobSourceMappings \cup {ForeignSourceMapping},
          data_size \in PayloadSizes, forward \in BOOLEAN :
          DynamicRequest(uuid, sm, data_size, forward)
    \/ \E uuid \in {JobUuid, UnknownUuid},
          sm \in JobSourceMappings \cup {ForeignSourceMapping},
          data_size \in PayloadSizes, forward \in BOOLEAN :
          DynamicRequestRejected(uuid, sm, data_size, forward)
    \/ DynamicApplied
    \/ DynamicApplyFailed
    \/ \E postOk \in BOOLEAN : DynamicForward(postOk)

DynamicSpec == Init /\ [][DynamicNext]_vars

\* C15: a dynamic request refused for its size, its job uuid or its source
\* mapping leaves the executions and the job as they were, and a dynamic
\* request only creates an execution when the job exists, the body is within
\* the limit and the source mapping is on the job's input definition.
C15_RefusedDynamicRequestWritesNothing ==
    [][/\ (Answers("handle_dynamic_mapping")
             /\ response'.error \in {HTTPException, EntityNotPresent})
          => (execs' = execs /\ job' = job)
       /\ (dyn.pc = "idle" /\ dyn'.pc = "apply")
          => (/\ job # NoJob
              /\ dyn'.data_size <= MaxPayloadBytes
              /\ Len(execs') = Len(execs) + 1
              /\ execs'[dyn'.execution_id].source_mapping_id
                    \in JobSourceMappings)]_vars

\* next to an execution of an earlier request, a request with a body over
\* the limit has been refused
C15_Witness ==
    /\ Len(execs) = 1
    /\ job.type = DYNAMIC
    /\ dyn = Idle
    /\ response.op = "handle_dynamic_mapping"
    /\ response.error = HTTPException
    /\ response.detail.refused = "payload"

-----------------------------------------------------------------------------
(* The caller's identity on the routes of the jobs router *)

\* routes that declare AuthUserDep
IdentifiedRoutes ==
    {"create_mapping_job", "read_mapping_job", "update_mapping_job",
     "delete_mapping_job", "download_mapping_execution", "download_mapping_job",
     "handle_dynamic_mapping"}

\* a request without a valid session on a route that declares AuthUserDep:
\* the dependency raises Unauthorized and the handler is not called
RequestUnidentified(op) ==
    /\ op \in IdentifiedRoutes
    /\ response' = Respond(op, FALSE, Unauthorized, [none |-> TRUE])
    /\ UNCHANGED <<job, execs, runs, dyn, inputDefs, nextDefId, handler, apply, builder, xml, txns, generation>>

\* GET /jobs/user/{user_id} and GET /jobs/organization/{org_id}: the jobs
\* with their executions are returned; the routes declare no AuthUserDep
ReadJobs(op) ==
    /\ op \in {"read_jobs_by_user", "read_jobs_by_organization"}
    /\ job # NoJob
    /\ response' = Respond(op, FALSE, NULL,
                           [status |-> job.status, executions |-> Len(execs)])
    /\ UNCHANGED <<job, execs, runs, dyn, inputDefs, nextDefId, handler, apply, builder, xml, txns, generation>>

\* a STATIC job and the requests of callers without a session
ApiNext ==
    \/ \E op \in IdentifiedRoutes : RequestUnidentified(op)
    \/ \E op \in {"read_jobs_by_user", "read_jobs_by_organization"} : ReadJobs(op)
    \/ \E sm \in JobSourceMappings : SubmitFile(sm)
    \/ \E t \in BagToSet(runs) : RunBegin(t)
    \/ \E t \in BagToSet(runs) : RunFail(t)
    \/ \E t \in BagToSet(runs) : RunSucceed(t)

ApiSpec == StaticInit /\ [][ApiNext]_vars

\* C17: a request answered without a resolved caller identity is answered
\* Unauthorized and leaves the job, its executions and the queued runs as
\* they were.
C17_IdentityRequired ==
    [][(response' # response /\ ~response'.identified) =>
          /\ response'.error = Unauthorized
          /\ job' = job
          /\ execs' = execs
          /\ runs' = runs]_vars

-----------------------------------------------------------------------------
(* The normalizer: stream file handlers (service/upload/handlers) *)

\* The file a handler writes is modelled as the sequence of the strings it
\* wrote; the lines it is given are drawn from a small alphabet per file type.
\* The XML handler, whose finalize re-parses what the base class wrote, is
\* not modelled.

MaxLines == 2       \* lines given to one write_data call
MaxInput == 4       \* lines given to one handler

HandlerKinds == {"json", "csv", "sql"}

BLANK == ""         \* a line that is empty after strip()

\* lines of an uploaded file, by file type: CSV rows, the lines of a JSON
\* array of objects, the statements of an SQL script
LinesOf(kind) ==
    IF kind = "csv" THEN {BLANK, "a,b", "c,d"}
    ELSE IF kind = "json" THEN {"[", "{}", ",", "]"}
    ELSE {BLANK, "create", "insert"}

\* what write_data can be given: 1..MaxLines lines
Chunks(kind) ==
    UNION {[1..n -> LinesOf(kind)] : n \in 1..MaxLines}

\* strings written to the file
OpenBracket == [t |-> "["]
CloseBracket == [t |-> "]"]
Separator == [t |-> ","]
\* a line written as it was given
Raw(line) == [t |-> "raw", text |-> line]
\* json.dumps of an entity built by the handler
JsonObject(keys, values) == [t |-> "object", keys |-> keys, values |-> values]

NonBlank(line) == line # BLANK

\* the loop "if count > 0: write(','); write(json.dumps(entity)); count += 1"
\* over the entities, from the file and the count it starts with
RECURSIVE WriteEntities(_, _, _)
WriteEntities(out, count, entities) ==
    IF entities = <<>> THEN [out |-> out, count |-> count]
    ELSE WriteEntities(
            (IF count > 0 THEN Append(out, Separator) ELSE out)
               \o <<Head(entities)>>,
            count + 1, Tail(entities))

\* extract_headers_and_data: of the lines of one call, the first non-blank
\* line is the header and the other non-blank lines are the data
ExtractHeadersAndData(lines) ==
    LET kept == SelectSeq(lines, NonBlank)
    IN  IF kept = <<>> THEN [headers |-> NULL, data_lines |-> <<>>]
        ELSE [headers |-> Head(kept), data_lines |-> Tail(kept)]

\* process_csv_chunk: one object per data line, keyed by the headers
ProcessCsvChunk(headers, data_lines) ==
    [i \in DOMAIN data_lines |-> JsonObject(headers, data_lines[i])]

\* the handler is constructed and create_file opens its file; the CSV and
\* SQL handlers start the array
HandlerCreate(kind) ==
    /\ handler.handle # "open"
    /\ handler' = [kind |-> kind, handle |-> "open",
                   out |-> IF kind = "json" THEN <<>> ELSE <<OpenBracket>>,
                   count |-> 0, csv_headers |-> NULL, current_data |-> <<>>,
                   input |-> <<>>, call |-> "create_file", raised |-> NULL]
    /\ UNCHANGED <<job, execs, runs, dyn, inputDefs, nextDefId, response, apply, builder, xml, txns, generation>>

\* StreamFileHandler.write_data (the JSON handler inherits it): refused when
\* the handle is closed; otherwise the joined lines are written and count is
\* incremented once
BaseWriteData(data) ==
    IF handler.handle # "open"
    THEN [handler EXCEPT !.call = "write_data", !.raised = "ValueError"]
    ELSE [handler EXCEPT !.call = "write_data", !.raised = NULL,
             !.out = @ \o [i \in DOMAIN data |-> Raw(data[i])],
             !.count = @ + 1,
             !.input = @ \o data]

\* CSVStreamFileHandler.write_data: the headers are taken from the first
\* call that has a non-blank line, the first non-blank line of every call is
\* left out of the data, and each data line is written as one object; the
\* first write to a closed handle raises
CsvWriteData(data) ==
    LET ex == ExtractHeadersAndData(data)
        headers == IF handler.csv_headers = NULL THEN ex.headers
                   ELSE handler.csv_headers
        entities == ProcessCsvChunk(headers, ex.data_lines)
        written == WriteEntities(handler.out, handler.count, entities)
    IN  IF handler.handle # "open"
        THEN [handler EXCEPT !.call = "write_data", !.csv_headers = headers,
                 !.raised = IF entities = <<>> THEN NULL ELSE "ValueError"]
        ELSE [handler EXCEPT !.call = "write_data", !.raised = NULL,
                 !.csv_headers = headers,
                 !.out = written.out, !.count = written.count,
                 !.input = @ \o data]

\* SQLStreamFileHandler.write_data: the non-blank lines are kept for finalize;
\* the handle is not looked at
SqlWriteData(data) ==
    [handler EXCEPT !.call = "write_data", !.raised = NULL,
        !.current_data = @ \o SelectSeq(data, NonBlank),
        !.input = IF handler.handle = "open" THEN @ \o data ELSE @]

WriteData(data) ==
    /\ handler.kind \in HandlerKinds
    /\ data \in Chunks(handler.kind)
    /\ Len(handler.input) + Len(data) <= MaxInput
    /\ Len(handler.current_data) + Len(data) <= MaxInput
    /\ handler' = IF handler.kind = "csv" THEN CsvWriteData(data)
                  ELSE IF handler.kind = "sql" THEN SqlWriteData(data)
                  ELSE BaseWriteData(data)
    /\ UNCHANGED <<job, execs, runs, dyn, inputDefs, nextDefId, response, apply, builder, xml, txns, generation>>

\* the entries SQLStreamFileHandler.finalize writes after the "_meta" entry
\* of _process_with_sqlite: the rows of the tables when the script ran and
\* made tables; otherwise the error entry, if it failed, and the entries of
\* the regex parser
SqlEntries(sqlite) ==
    LET inserts == SelectSeq(handler.current_data, LAMBDA l : l = "insert")
        rows == [i \in DOMAIN inserts |-> JsonObject("_table", inserts[i])]
        regex == <<JsonObject("_meta", "regex_parser")>> \o rows
    IN  IF sqlite = "tables" THEN rows
        ELSE IF sqlite = "error"
             THEN <<JsonObject("_meta", "sqlite_engine_failed")>> \o regex
             ELSE regex

\* finalize of an open handler: the base class closes the file; the CSV
\* handler ends the array; the SQL handler converts what it kept (the script
\* makes tables, makes none, or SQLite refuses it) and ends the array
Finalize(sqlite) ==
    /\ handler.handle = "open"
    /\ handler.kind = "sql" \/ sqlite = "none"
    /\ handler.kind = "sql" =>
          /\ sqlite \in {"tables", "no_tables", "error"}
          /\ sqlite = "tables" =>
                \E i \in DOMAIN handler.current_data :
                    handler.current_data[i] = "create"
    /\ handler' =
          IF handler.kind = "json"
          THEN [handler EXCEPT !.call = "finalize", !.raised = NULL,
                   !.handle = "closed"]
          ELSE IF handler.kind = "csv"
          THEN [handler EXCEPT !.call = "finalize", !.raised = NULL,
                   !.handle = "closed", !.out = Append(@, CloseBracket)]
          ELSE LET meta == JsonObject("_meta", "sqlite_engine")
                   written == WriteEntities(Append(handler.out, meta),
                                            handler.count + 1,
                                            SqlEntries(sqlite))
               IN  [handler EXCEPT !.call = "finalize", !.raised = NULL,
                       !.handle = "closed",
                       !.out = Append(written.out, CloseBracket),
                       !.count = written.count]
    /\ UNCHANGED <<job, execs, runs, dyn, inputDefs, nextDefId, response, apply, builder, xml, txns, generation>>

UploadNext ==
    \/ \E kind \in HandlerKinds : HandlerCreate(kind)
    \/ \E data \in Chunks(handler.kind) : WriteData(data)
    \/ \E sqlite \in {"none", "tables", "no_tables", "error"} : Finalize(sqlite)

UploadSpec == Init /\ [][UploadNext]_vars

\* the objects of the array in a file
IsRecord(token) == token.t = "object" \/ (token.t = "raw" /\ token.text = "{}")
IsSeparator(token) == token.t = "," \/ (token.t = "raw" /\ token.text = ",")
Records(out) == SelectSeq(out, IsRecord)

\* C18: when a CSV handler has been finalized, the first non-blank line of
\* all the lines it was given is the header of every record, and the file
\* holds one record for every later non-blank line, whatever the calls the
\* lines came in.
C18_OneRecordPerDataLine ==
    (handler.kind = "csv" /\ handler.handle = "closed") =>
        LET lines == SelectSeq(handler.input, NonBlank)
            records == Records(handler.out)
        IN  /\ Len(records) = IF lines = <<>> THEN 0 ELSE Len(lines) - 1
            /\ \A i \in DOMAIN records :
                  /\ records[i].keys = Head(lines)
                  /\ records[i].values = lines[i + 1]

\* C19: when a handler has been finalized, its count is the number of
\* records in the file and a separator stands before every record except
\* the first.
C19_CountIsRecordsWritten ==
    handler.handle = "closed" =>
        /\ handler.count = Len(Records(handler.out))
        /\ \A i \in DOMAIN handler.out :
              IsRecord(handler.out[i]) =>
                 ((\E j \in 1..(i - 1) : IsRecord(handler.out[j]))
                    <=> (i > 1 /\ IsSeparator(handler.out[i - 1])))

\* C20: a write_data call on a finalized handler raises and leaves the
\* file, the count and what the handler keeps of its input as they were.
C20_WriteAfterFinalizeRefused ==
    [][(handler.handle = "closed" /\ handler'.handle = "closed"
          /\ handler'.call = "write_data" /\ handler' # handler) =>
         /\ handler'.raised # NULL
         /\ handler'.out = handler.out
         /\ handler'.count = handler.count
         /\ handler'.current_data = handler.current_data
         /\ handler'.csv_headers = handler.csv_headers]_vars

-----------------------------------------------------------------------------
(* Mapping applier: backend/app/service/mapping/apply.py.  A record is     *)
(* kept by what decides its fate: whether it validates against the         *)
(* blueprint's output definition schema, whether it validates against the  *)
(* input definition (source) schema, and whether _transform evaluates on   *)
(* it.  apply_stream is a generator: one step per record.                  *)

MaxBatch == 3

\* the candidate records of a batch
RawRecords ==
    [fits_output : BOOLEAN, fits_source : BOOLEAN, evaluates : BOOLEAN]

\* stored jsonata_mapping of a source mapping: NULL or a JSON object string
MappingBodies == {NULL, "exprs"}

\* sequences over S of length at most n
SeqsUpTo(S, n) == UNION {[1..k -> S] : k \in 0..n}

\* the body stored for source mapping m
BodyOf(bodies, m) == (CHOOSE b \in bodies : b.id = m).jsonata_mapping

\* res as _apply_one returns it
ItemResult(idx, status, result, error) ==
    [index |-> idx, status |-> status, result |-> result, error |-> error]

\* res["result"]: None, or the list of per-mapping outputs
NoResult == [none |-> TRUE]
PerMappingOut(outs) == [none |-> FALSE, per_mapping_out |-> outs]

\* SchemaValidator(instance=raw, schema=schema).validate() with the schema
\* apply_stream passes: out_def.json_schema
Validates(raw) == raw.fits_output

\* _transform(raw, mapping_body)
Transform(raw, m) == [data |-> raw, mapping |-> m]

\* the source mappings loop of _apply_one from position k on: a cached body
\* is used, a missing one is fetched and cached; json.loads of a NULL body
\* and an expression that does not evaluate raise
RECURSIVE ApplyMappings(_, _, _, _, _, _)
ApplyMappings(raw, source_mappings, bodies, k, outs, cache) ==
    IF k > Len(source_mappings)
      THEN [error |-> NULL, outs |-> outs, cache |-> cache]
      ELSE LET m == source_mappings[k]
               hit == \E c \in cache : c.id = m
               body == BodyOf(bodies, m)
           IN  IF ~hit /\ body = NULL
                 THEN [error |-> "mapping", outs |-> outs, cache |-> cache]
                 ELSE LET cached == cache \cup {[id |-> m, body |-> body]}
                      IN  IF ~raw.evaluates
                            THEN [error |-> "evaluation", outs |-> outs,
                                  cache |-> cached]
                            ELSE ApplyMappings(raw, source_mappings, bodies,
                                     k + 1, Append(outs, Transform(raw, m)),
                                     cached)

\* _apply_one: the item result and the cache it leaves
ApplyOne(idx, raw, source_mappings, bodies, cache) ==
    IF ~Validates(raw)
      THEN [res |-> ItemResult(idx, "failed", NoResult, "validation"),
            cache |-> cache]
      ELSE LET r == ApplyMappings(raw, source_mappings, bodies, 1, <<>>, cache)
           IN  IF r.error # NULL
                 THEN [res |-> ItemResult(idx, "failed", NoResult, r.error),
                       cache |-> r.cache]
                 ELSE [res |-> ItemResult(idx, "success",
                                   PerMappingOut(r.outs), NULL),
                       cache |-> r.cache]

\* except Exception: every error raised for a record is caught
CaughtValidationOnly(error) == error \in {NULL, "validation"}

Caught(error) == TRUE

\* a consumer starts apply_stream; the lookups before the loop raise
\* ValueError when the input definition or the output definition is missing
ApplyStream(found, input_jsons, source_mappings, bodies) ==
    /\ apply = NoApply
    /\ apply' = IF ~found
                  THEN [NoApply EXCEPT !.pc = "refused"]
                  ELSE [pc |-> IF input_jsons = <<>> THEN "done" ELSE "stream",
                        input_jsons |-> input_jsons,
                        source_mappings |-> source_mappings,
                        bodies |-> bodies,
                        results |-> <<>>, cache |-> {}]
    /\ UNCHANGED <<job, execs, runs, dyn, inputDefs, nextDefId, response, handler, builder, xml, txns, generation>>

\* the consumer takes the next item: for idx, raw in enumerate(input_jsons)
ApplyNext ==
    /\ apply.pc = "stream"
    /\ LET idx == Len(apply.results)
           one == ApplyOne(idx, apply.input_jsons[idx + 1],
                           apply.source_mappings, apply.bodies, apply.cache)
       IN  apply' =
             IF ~Caught(one.res.error)
               THEN [apply EXCEPT !.pc = "raised", !.cache = one.cache]
               ELSE [apply EXCEPT
                       !.results = Append(@, one.res),
                       !.cache = one.cache,
                       !.pc = IF idx + 1 = Len(apply.input_jsons)
                                THEN "done" ELSE "stream"]
    /\ UNCHANGED <<job, execs, runs, dyn, inputDefs, nextDefId, response, handler, builder, xml, txns, generation>>

\* inp.source_mappings of the input definitions tried
MappingLists == {<<>>, <<"sm1">>, <<"sm1", "sm2">>}

\* the rows of the mappings in ms, each with a stored body or none
BodiesFor(ms) ==
    {bs \in SUBSET [id : {ms[k] : k \in DOMAIN ms}, jsonata_mapping : MappingBodies] :
        \A k \in DOMAIN ms : Cardinality({b \in bs : b.id = ms[k]}) = 1}

ApplyStreamNext ==
    \/ /\ apply = NoApply
       /\ \E found \in BOOLEAN, input_jsons \in SeqsUpTo(RawRecords, MaxBatch),
             ms \in MappingLists :
             \E bodies \in BodiesFor(ms) :
                 ApplyStream(found, input_jsons, ms, bodies)
    \/ ApplyNext

ApplySpec == Init /\ [][ApplyStreamNext]_vars

\* what apply_stream yields for a whole batch, from item k on
RECURSIVE Yielded(_, _, _, _, _)
Yielded(input_jsons, source_mappings, bodies, k, cache) ==
    IF k > Len(input_jsons) THEN <<>>
    ELSE LET one == ApplyOne(k - 1, input_jsons[k], source_mappings, bodies, cache)
         IN  <<one.res>> \o Yielded(input_jsons, source_mappings, bodies,
                                    k + 1, one.cache)

\* the batch without its j-th record
Without(s, j) == [i \in 1..(Len(s) - 1) |-> IF i < j THEN s[i] ELSE s[i + 1]]

\* an item result without its index
Outcome(res) == [status |-> res.status, result |-> res.result, error |-> res.error]

\* the record fails the validation or an evaluation _apply_one performs
Fails(raw, source_mappings) ==
    ~Validates(raw) \/ (source_mappings # <<>> /\ ~raw.evaluates)

\* C21: a batch of N records yields N itemized results, the i-th carrying
\* index i; a record that fails validation or expression evaluation is
\* reported failed with an error; and every other record's result is what
\* the batch without the failing record yields for it.
C21_ItemizedAndIsolated ==
    LET a == apply
        n == Len(a.input_jsons)
    IN  /\ a.pc # "raised"
        /\ a.pc = "done" => Len(a.results) = n
        /\ \A i \in 1..Len(a.results) :
             /\ a.results[i].index = i - 1
             /\ Fails(a.input_jsons[i], a.source_mappings)
                  => /\ a.results[i].status = "failed"
                     /\ a.results[i].error # NULL
        /\ a.pc = "done" =>
             \A j \in 1..n : a.results[j].status = "failed" =>
               LET rest == Yielded(Without(a.input_jsons, j),
                                   a.source_mappings, a.bodies, 1, {})
               IN  \A i \in 1..n : i # j =>
                     Outcome(a.results[i])
                       = Outcome(rest[IF i < j THEN i ELSE i - 1])

C21_Witness ==
    /\ apply.pc = "done"
    /\ Len(apply.input_jsons) = MaxBatch
    /\ apply.results[1].status = "success"
    /\ apply.results[2].status = "failed"
    /\ apply.results[2].error = "validation"
    /\ apply.results[3].status = "success"
    /\ Len(apply.source_mappings) = 2

\* C22: a record is validated against the declared source (input) schema
\* before it is transformed: one that violates that schema is reported
\* failed and not transformed, one that satisfies it is not rejected by
\* validation.
C22_ValidatedAgainstSourceSchema ==
    \A i \in 1..Len(apply.results) :
        LET raw == apply.input_jsons[i]
            res == apply.results[i]
        IN  /\ ~raw.fits_source =>
                 res.status = "failed" /\ res.result = NoResult
            /\ raw.fits_source => res.error # "validation"

-----------------------------------------------------------------------------
(* Schema inferencer: backend/app/service/mapping/schema.py.  The objects  *)
(* fed to the builder have one property, "a", holding an atomic value or   *)
(* an array of atomic values.  An atomic value keeps its JSON type, since  *)
(* the bucket test `node not in bucket` compares with Python equality,     *)
(* under which True equals 1.                                              *)

MaxObjects == 3

ARRAY_SENTINEL == "__array__"
MAX_EXAMPLES == 3

\* atomic JSON values: true, 1, 2, "x", "y"
Atom(t, v) == [type |-> t, v |-> v]
Atoms ==
    {Atom("boolean", 1), Atom("integer", 1), Atom("integer", 2),
     Atom("string", 1), Atom("string", 2)}

Array(items) == [type |-> "array", items |-> items]

\* the values of property "a" tried: an atom, [] or an array of two atoms
PropertyValues ==
    Atoms \cup {Array(<<>>)} \cup {Array(<<x, y>>) : x, y \in Atoms}

\* Python ==: bool is a subclass of int, so True == 1
PyEq(x, y) ==
    \/ x = y
    \/ /\ x.type \in {"boolean", "integer"}
       /\ y.type \in {"boolean", "integer"}
       /\ x.v = y.v

\* the example paths of property "a": the property and its array items
PathA == <<"a">>
PathItems == <<"a", ARRAY_SENTINEL>>
Paths == {PathA, PathItems}

\* the atomic branch of _collect_examples
Bucket(bucket, node) ==
    IF (\A k \in DOMAIN bucket : ~PyEq(node, bucket[k]))
         /\ Len(bucket) < MAX_EXAMPLES
      THEN Append(bucket, node)
      ELSE bucket

\* the list branch of _collect_examples, from item k on
RECURSIVE CollectItems(_, _, _)
CollectItems(bucket, items, k) ==
    IF k > Len(items) THEN bucket
    ELSE CollectItems(Bucket(bucket, items[k]), items, k + 1)

\* _collect_examples(obj, ()) for obj = {"a": value}
CollectExamples(examples, value) ==
    IF value.type = "array"
      THEN [examples EXCEPT ![PathItems] = CollectItems(@, value.items, 1)]
      ELSE [examples EXCEPT ![PathA] = Bucket(@, value)]

\* what genson merged for property "a"
HasAtom(objects) == \E k \in DOMAIN objects : objects[k].type # "array"
HasItems(objects) ==
    \E k \in DOMAIN objects :
        objects[k].type = "array" /\ objects[k].items # <<>>

\* the leaf paths of the generated schema
LeafPaths(objects) ==
    (IF HasAtom(objects) THEN {PathA} ELSE {})
      \cup (IF HasItems(objects) THEN {PathItems} ELSE {})

\* _inject_examples: the examples each leaf of the schema ends with (<<>> is
\* no "examples" key).  A property that held atoms and arrays is an anyOf
\* fragment without "type": its examples are grafted on the fragment and
\* its array branch is not walked.
InjectExamples(objects, examples) ==
    [p \in LeafPaths(objects) |->
        IF p = PathItems /\ HasAtom(objects) THEN <<>> ELSE examples[p]]

\* EnhancedSchemaBuilder()
NewBuilder ==
    /\ builder = NoBuilder
    /\ builder' = [pc |-> "collecting", objects |-> <<>>,
                   examples |-> [p \in Paths |-> <<>>], schema |-> <<>>]
    /\ UNCHANGED <<job, execs, runs, dyn, inputDefs, nextDefId, response, handler, apply, xml, txns, generation>>

\* add_object({"a": value})
AddObject(value) ==
    /\ builder.pc = "collecting"
    /\ Len(builder.objects) < MaxObjects
    /\ builder' = [builder EXCEPT
                     !.objects = Append(@, value),
                     !.examples = CollectExamples(@, value)]
    /\ UNCHANGED <<job, execs, runs, dyn, inputDefs, nextDefId, response, handler, apply, xml, txns, generation>>

\* to_schema()
ToSchema ==
    /\ builder.pc = "collecting"
    /\ builder.objects # <<>>
    /\ builder' = [builder EXCEPT
                     !.pc = "schema",
                     !.schema = InjectExamples(builder.objects, builder.examples)]
    /\ UNCHANGED <<job, execs, runs, dyn, inputDefs, nextDefId, response, handler, apply, xml, txns, generation>>

SchemaNext ==
    \/ NewBuilder
    \/ \E value \in PropertyValues : AddObject(value)
    \/ ToSchema

SchemaSpec == Init /\ [][SchemaNext]_vars

\* the values observed at path p, in the order the data lists them
RECURSIVE Observed(_, _, _)
Observed(objects, p, k) ==
    IF k > Len(objects) THEN <<>>
    ELSE (IF p = PathItems /\ objects[k].type = "array" THEN objects[k].items
          ELSE IF p = PathA /\ objects[k].type # "array" THEN <<objects[k]>>
          ELSE <<>>) \o Observed(objects, p, k + 1)

\* the distinct values of s in first-seen order
RECURSIVE Distinct(_, _, _)
Distinct(s, k, acc) ==
    IF k > Len(s) THEN acc
    ELSE Distinct(s, k + 1,
                  IF \E i \in DOMAIN acc : acc[i] = s[k] THEN acc
                  ELSE Append(acc, s[k]))

\* the first n values of s
FirstN(s, n) == SubSeq(s, 1, IF Len(s) < n THEN Len(s) ELSE n)

\* C23: every leaf path of the inferred schema carries as examples the first
\* min(3, k) distinct values observed at that path, in first-seen order (k
\* the number of distinct values; the items of an array merge into one path).
C23_ExamplesAreFirstDistinct ==
    builder.pc = "schema" =>
        \A p \in DOMAIN builder.schema :
            builder.schema[p]
              = FirstN(Distinct(Observed(builder.objects, p, 1), 1, <<>>),
                       MAX_EXAMPLES)

-----------------------------------------------------------------------------
(* XML conversion: backend/app/service/upload/handlers/xml.py.  A node is  *)
(* what lxml hands to element_to_dict: list(elem) iterates the comments of *)
(* an element along with its child elements, and the tag of a comment is   *)
(* not a string (it is the etree.Comment factory).                         *)

MaxChildren == 2

COMMENT == "etree.Comment"
Tags == {"a", "b"}

\* elem.text: None, or text with surrounding white space
Texts == {NULL, " 1 "}

\* elem.text.strip() if elem.text else ""
Strip(text) == IF text = NULL THEN "" ELSE IF text = " 1 " THEN "1" ELSE text

Node(tag, text, children) == [tag |-> tag, text |-> text, children |-> children]

\* nodes without children: <a/>, <a> 1 </a>, <!-- 1 -->
Leaves ==
    {Node(tag, text, <<>>) : tag \in Tags, text \in Texts}
      \cup {Node(COMMENT, " 1 ", <<>>)}

\* nodes of depth at most one
Shallow ==
    Leaves \cup {Node(tag, NULL, ch) :
                    tag \in Tags, ch \in SeqsUpTo(Leaves, MaxChildren) \ {<<>>}}

\* the documents tried: a root element over nodes of depth at most one
Documents == {Node("root", NULL, ch) : ch \in SeqsUpTo(Shallow, MaxChildren)}

\* JSON values element_to_dict builds
JStr(s) == [kind |-> "str", s |-> s]
JList(items) == [kind |-> "list", items |-> items]
JDict(entries) == [kind |-> "dict", entries |-> entries]

\* result[child.tag] = ... of the object branch: a repeated tag is merged
\* into a list, appended to when the value kept is already a list
Merge(result, tag, val) ==
    IF \E i \in DOMAIN result : result[i].key = tag
      THEN [i \in DOMAIN result |->
              IF result[i].key # tag THEN result[i]
              ELSE [key |-> tag,
                    val |-> IF result[i].val.kind = "list"
                              THEN JList(Append(result[i].val.items, val))
                              ELSE JList(<<result[i].val, val>>)]]
      ELSE Append(result, [key |-> tag, val |-> val])

RECURSIVE ElementToDict(_)
RECURSIVE BuildObject(_, _, _)

\* the loop of the object branch, from child k on
BuildObject(children, k, result) ==
    IF k > Len(children) THEN result
    ELSE BuildObject(children, k + 1,
                     Merge(result, children[k].tag, ElementToDict(children[k])))

\* element_to_dict
ElementToDict(elem) ==
    LET children == elem.children
        tags == {children[k].tag : k \in DOMAIN children}
    IN  IF children = <<>> THEN JStr(Strip(elem.text))
        ELSE IF Cardinality(tags) = 1
          THEN JList([k \in DOMAIN children |-> ElementToDict(children[k])])
          ELSE JDict(BuildObject(children, 1, <<>>))

\* parse_xml_to_json: always a list
ParseXmlToJson(root) ==
    LET data == ElementToDict(root)
    IN  IF data.kind \in {"dict", "str"} THEN JList(<<data>>) ELSE data

\* finalize parses the XML file the handler wrote
XmlFinalize(root) ==
    /\ xml = NoXml
    /\ xml' = [pc |-> "parsed", root |-> root, json_result |-> ParseXmlToJson(root)]
    /\ UNCHANGED <<job, execs, runs, dyn, inputDefs, nextDefId, response, handler, apply, builder, txns, generation>>

\* some object of v has a key that is not a string
RECURSIVE NonStringKey(_)
NonStringKey(v) ==
    CASE v.kind = "list" -> \E k \in DOMAIN v.items : NonStringKey(v.items[k])
      [] v.kind = "dict" ->
            \E k \in DOMAIN v.entries :
                v.entries[k].key = COMMENT \/ NonStringKey(v.entries[k].val)
      [] OTHER -> FALSE

\* json.dumps(json_result) is written to the JSON file and the XML file is
\* removed; json.dumps raises TypeError on a key that is not a string
XmlWritten ==
    /\ xml.pc = "parsed"
    /\ xml' = [xml EXCEPT !.pc = IF NonStringKey(xml.json_result)
                                   THEN "raised" ELSE "written"]
    /\ UNCHANGED <<job, execs, runs, dyn, inputDefs, nextDefId, response, handler, apply, builder, txns, generation>>

XmlNext ==
    \/ /\ xml = NoXml
       /\ \E root \in Documents : XmlFinalize(root)
    \/ XmlWritten

XmlSpec == Init /\ [][XmlNext]_vars

\* the child elements of a node, in document order
ChildElements(elem) == SelectSeq(elem.children, LAMBDA c : c.tag # COMMENT)

\* the child elements of elem are one or more and share one tag name
SharesOneTag(elem) ==
    LET ce == ChildElements(elem)
    IN  ce # <<>> /\ \A i, j \in DOMAIN ce : ce[i].tag = ce[j].tag

\* elem is converted to the array of its converted child elements
ConvertedToArray(elem, converted) ==
    converted = JList([k \in DOMAIN ChildElements(elem) |->
                          ElementToDict(ChildElements(elem)[k])])

\* C24: every element whose children all share one tag name (a single child
\* included) is converted to an array of exactly that many elements, in
\* document order, each the conversion of the corresponding child.
C24_SameTagChildrenBecomeArray ==
    xml.pc # "none" =>
        /\ SharesOneTag(xml.root) =>
               ConvertedToArray(xml.root, xml.json_result)
        /\ \A k \in DOMAIN xml.root.children :
               LET e == xml.root.children[k]
               IN  (e.tag # COMMENT /\ SharesOneTag(e)) =>
                       ConvertedToArray(e, ElementToDict(e))

-----------------------------------------------------------------------------
(* Claims on the aggregation, the re-submission and the downloads *)

\* C25: once every execution of the job is SUCCESS or FAILED and no run is
\* queued or in progress, the job is SUCCESS or FAILED too: a job is never
\* left PENDING or RUNNING after all of its executions have finished.
C25_FinishedExecutionsFinishJob ==
    (/\ execs # <<>>
     /\ \A i \in ExecIds : execs[i].status \in Terminal
     /\ runs = EmptyBag)
        => job.status \in Terminal

\* C26: the completion of a run that began before its execution was
\* re-submitted does not overwrite the re-submitted execution: a step never
\* takes an execution that is PENDING (re-submitted, not started again) to
\* SUCCESS or FAILED, nor changes its output location or error.
C26_EarlierRunDoesNotOverwrite ==
    [][\A i \in ExecIds :
         execs[i].status = PENDING =>
            /\ execs'[i].status \notin Terminal
            /\ execs'[i].output_file_name = execs[i].output_file_name
            /\ execs'[i].error_message = execs[i].error_message]_vars

\* the output the download routes serve for execution i: both routes look
\* at output_file_name only
Served(i) == execs[i].output_file_name

\* C27: an execution records an output location only while it is SUCCESS;
\* after a re-submission or a failed re-run the output of the previous run
\* is not recorded and the downloads do not serve it.
C27_OutputOnlyWhileSuccess ==
    \A i \in ExecIds : Served(i) # NULL => execs[i].status = SUCCESS

\* C28: completed_at of the job is set only while the job is SUCCESS or
\* FAILED: a PENDING or RUNNING job has no completed_at.
C28_CompletedAtOnlyWhenTerminal ==
    job.status \in {PENDING, RUNNING} => job.completed_at = NULL

-----------------------------------------------------------------------------
(* Version operations as overlapping transactions.  The engine is          *)
(* PostgreSQL at its default isolation, READ COMMITTED: a statement sees   *)
(* the rows committed when it starts and its transaction's own writes; an  *)
(* UPDATE locks the rows it changes until commit, and one that waits for a *)
(* lock goes on with the rows it matched when it started.  get_session     *)
(* commits when the handler returns.                                       *)

VersionOps == {"create_input_definition_version", "select_input_definition_version"}

\* the first SELECT of either operation: the base, or the version to select
TxRead(t, op, input_def) ==
    /\ txns[t] = NoTx
    /\ input_def \in inputDefs
    /\ txns' = [txns EXCEPT ![t] = [NoTx EXCEPT !.pc = "read", !.op = op,
                                                !.input_def = input_def]]
    /\ UNCHANGED <<job, execs, runs, dyn, inputDefs, nextDefId, response, handler, apply, builder, xml, generation>>

\* the deselecting UPDATE starts: the rows its WHERE clause matches
TxDeselectStart(t) ==
    /\ txns[t].pc = "read"
    /\ LET d == txns[t].input_def
           matched ==
             IF txns[t].op = "create_input_definition_version"
               THEN {r \in inputDefs : r.version_group_id = d.version_group_id}
               ELSE {r \in inputDefs :
                        /\ r.blueprint_id = d.blueprint_id
                        /\ r.version_group_id = d.version_group_id
                        /\ r.is_selected}
       IN  txns' = [txns EXCEPT ![t].pc = "deselect",
                                ![t].targets = {r.id : r \in matched}]
    /\ UNCHANGED <<job, execs, runs, dyn, inputDefs, nextDefId, response, handler, apply, builder, xml, generation>>

\* rows locked by a transaction other than t
LockedByOther(t) == UNION {txns[u].locked : u \in TxIds \ {t}}

\* the deselecting UPDATE completes once no matched row is locked by the
\* other transaction
TxDeselectDone(t) ==
    /\ txns[t].pc = "deselect"
    /\ txns[t].targets \cap LockedByOther(t) = {}
    /\ txns' = [txns EXCEPT ![t].pc = "deselected",
                            ![t].deselected = txns[t].targets,
                            ![t].locked = txns[t].targets]
    /\ UNCHANGED <<job, execs, runs, dyn, inputDefs, nextDefId, response, handler, apply, builder, xml, generation>>

\* create-version inserts the new row (version of the base read + 1,
\* selected); select-version updates the row it read to selected
TxWrite(t) ==
    /\ txns[t].pc = "deselected"
    /\ LET d == txns[t].input_def
       IN  IF txns[t].op = "create_input_definition_version"
             THEN /\ nextDefId <= MaxDefs
                  /\ txns' = [txns EXCEPT
                        ![t].pc = "written",
                        ![t].inserted =
                            {[id |-> nextDefId,
                              version_group_id |-> d.version_group_id,
                              version |-> d.version + 1, is_selected |-> TRUE,
                              blueprint_id |-> d.blueprint_id]}]
                  /\ nextDefId' = nextDefId + 1
             ELSE /\ d.id \notin LockedByOther(t)
                  /\ txns' = [txns EXCEPT
                        ![t].pc = "written",
                        ![t].selected = {d.id},
                        ![t].locked = @ \cup {d.id}]
                  /\ UNCHANGED nextDefId
    /\ UNCHANGED <<job, execs, runs, dyn, inputDefs, response, handler, apply, builder, xml, generation>>

\* the handler returns and get_session commits: the transaction's writes
\* reach the table and its locks are released
TxCommit(t) ==
    /\ txns[t].pc = "written"
    /\ inputDefs' =
          {[r EXCEPT !.is_selected =
                IF r.id \in txns[t].selected THEN TRUE
                ELSE IF r.id \in txns[t].deselected THEN FALSE ELSE @] :
              r \in inputDefs} \cup txns[t].inserted
    /\ txns' = [txns EXCEPT ![t] = NoTx]
    /\ UNCHANGED <<job, execs, runs, dyn, nextDefId, response, handler, apply, builder, xml, generation>>

ConcurrentNext ==
    \/ \E t \in TxIds, op \in VersionOps, d \in inputDefs : TxRead(t, op, d)
    \/ \E t \in TxIds : TxDeselectStart(t)
    \/ \E t \in TxIds : TxDeselectDone(t)
    \/ \E t \in TxIds : TxWrite(t)
    \/ \E t \in TxIds : TxCommit(t)

ConcurrentSpec == Init /\ [][ConcurrentNext]_vars

\* C29: version operations on one version group that overlap, each in its
\* own transaction, never commit two selected definitions, or two
\* definitions with the same version number, in that group.
C29_ConcurrentVersionsStayConsistent ==
    \A d1, d2 \in inputDefs :
        (d1.id # d2.id /\ d1.version_group_id = d2.version_group_id) =>
            /\ ~(d1.is_selected /\ d2.is_selected)
            /\ d1.version # d2.version

-----------------------------------------------------------------------------
(* Mapping generation of the engine: engine/app/service/mapping.py.  A     *)
(* mapping is named by the number of the model call that produced it;      *)
(* validate_mapping either passes or raises MappingError with a message.   *)

MaxRetries == 5

\* str(e) of the MappingError validate_mapping raises, or NULL when it passes
ValidationOutcomes == {NULL, "Error1", "Error2"}

\* create_mapping_prompt and the first get_model_output
GenerateMappingFromSchemas(retries) ==
    /\ generation = NoGeneration
    /\ generation' = [NoGeneration EXCEPT
                        !.pc = "loop", !.retries = retries,
                        !.retries_total = retries, !.calls = 1,
                        !.jsonata_mapping = 1, !.prompt = "mapping"]
    /\ UNCHANGED <<job, execs, runs, dyn, inputDefs, nextDefId, response, handler, apply, builder, xml, txns>>

\* one turn of `while retries > 0`: the mapping passes and the loop is left,
\* or it fails and another mapping is asked of the model: with the plain
\* prompt when the error repeats, with the retry prompt otherwise
ValidateMapping(outcome) ==
    /\ generation.pc = "loop"
    /\ generation.retries > 0
    /\ generation' =
         IF outcome = NULL
           THEN [generation EXCEPT
                   !.pc = "break", !.error_message = "",
                   !.passed = @ \cup {generation.jsonata_mapping}]
           ELSE [generation EXCEPT
                   !.error_message = outcome,
                   !.prompt = IF outcome = generation.previous_error
                                THEN "mapping" ELSE "retry",
                   !.calls = @ + 1,
                   !.jsonata_mapping = generation.calls + 1,
                   !.previous_error = outcome,
                   !.retries = @ - 1]
    /\ UNCHANGED <<job, execs, runs, dyn, inputDefs, nextDefId, response, handler, apply, builder, xml, txns>>

\* return JsonataGenerationResponse(...)
ReturnGeneration ==
    /\ \/ generation.pc = "break"
       \/ generation.pc = "loop" /\ generation.retries = 0
    /\ generation' = [generation EXCEPT
          !.pc = "returned",
          !.response =
              [none |-> FALSE,
               mapping |-> generation.jsonata_mapping,
               retries |-> generation.retries_total - generation.retries,
               corrupted |-> generation.error_message # "",
               error_message |-> generation.error_message]]
    /\ UNCHANGED <<job, execs, runs, dyn, inputDefs, nextDefId, response, handler, apply, builder, xml, txns>>

GenerationNext ==
    \/ \E retries \in 0..MaxRetries : GenerateMappingFromSchemas(retries)
    \/ \E outcome \in ValidationOutcomes : ValidateMapping(outcome)
    \/ ReturnGeneration

GenerationSpec == Init /\ [][GenerationNext]_vars

\* C30: for every retry budget r >= 0 generation makes at most r + 1 model
\* calls, and a response with corrupted = false carries a mapping that
\* passed validation against the input and output schemas.
C30_UncorruptedMappingWasValidated ==
    /\ generation.calls <= generation.retries_total + 1
    /\ generation.pc = "returned" =>
          (~generation.response.corrupted
              => generation.response.mapping \in generation.passed)

====
